---- MODULE Spec2Model ----
(***************************************************************************)
(* Model of focnet.py: the residual weight recursion, the construction of  *)
(* the cross-scale dependency mapping and the scheduler loop of            *)
(* FocNet.call.  Tensors are abstracted to the operation that produced     *)
(* them, the stored features they were computed from, their residual       *)
(* terms and their shape.  Floating point scalars are modelled as exact    *)
(* rationals <<numerator, denominator>> in lowest terms.                   *)
(***************************************************************************)
EXTENDS Integers, Sequences, FiniteSets, TLC

VARIABLES args, self, pass, rwc

vars == <<args, self, pass, rwc>>

(***************************************************************************)
(* Bounds of the model.                                                    *)
(***************************************************************************)
MaxDim == 16
MaxT == 5
MaxBetaFifths == 6
MaxIterations == 60

(***************************************************************************)
(* Python values and list indexing.                                        *)
(***************************************************************************)
None == <<>>

InRange(list, i) == i >= 0 - Len(list) /\ i < Len(list)

Get(list, i) == IF i < 0 THEN list[Len(list) + i + 1] ELSE list[i + 1]

PyIndex(list, i) == IF i < 0 THEN Len(list) + i ELSE i

Max(a, b) == IF a >= b THEN a ELSE b

Min(a, b) == IF a <= b THEN a ELSE b

Reverse(list) == [i \in 1..Len(list) |-> list[Len(list) + 1 - i]]

(***************************************************************************)
(* Exact rational arithmetic standing for the float arithmetic of          *)
(* residual_weights_computation.                                           *)
(***************************************************************************)
Abs(x) == IF x < 0 THEN 0 - x ELSE x

RECURSIVE GCD(_, _)
GCD(a, b) == IF b = 0 THEN a ELSE GCD(b, a % b)

\* the fraction n/d in lowest terms with a positive denominator
Rat(n, d) ==
    LET g == GCD(Abs(n), Abs(d))
        sgn == IF d < 0 THEN 0 - 1 ELSE 1
    IN  IF n = 0 THEN <<0, 1>> ELSE <<sgn * (n \div g), sgn * (d \div g)>>

RSub(a, b) == Rat(a[1] * b[2] - b[1] * a[2], a[2] * b[2])

RAdd(a, b) == Rat(a[1] * b[2] + b[1] * a[2], a[2] * b[2])

RMul(a, b) ==
    LET x == Rat(a[1], b[2])
        y == Rat(b[1], a[2])
    IN  Rat(x[1] * y[1], x[2] * y[2])

RDivInt(a, m) ==
    LET x == Rat(a[1], m)
    IN  Rat(x[1], x[2] * a[2])

(***************************************************************************)
(* Module constants of focnet.py.                                          *)
(***************************************************************************)
\* one block less at the coarsest scale
DEFAULT_N_CONVS_PER_SCALE_Fewer == <<5, 11, 11, 6>>

DEFAULT_N_CONVS_PER_SCALE == <<5, 11, 11, 7>>

DEFAULT_COMMUNICATION_BETWEEN_SCALES ==
    << << <<1, 0>>, <<1, 2>>, <<2, 3>>, <<2, 5>>, <<3, 6>>, <<3, 8>>, <<4, 9>>, <<4, 11>> >>,
       << <<1, 0>>, <<1, 2>>, <<4, 3>>, <<4, 5>>, <<7, 6>>, <<7, 8>>, <<10, 9>>, <<10, 11>> >>,
       << <<1, 0>>, <<1, 1>>, <<4, 2>>, <<4, 3>>, <<7, 4>>, <<7, 5>>, <<10, 6>>, <<10, 7>> >> >>

DEFAULT_N_SCALES == 4

DEFAULT_N_FILTERS == 128

DEFAULT_BETA == <<1, 5>>

DefaultArgs ==
    [n_scales |-> DEFAULT_N_SCALES,
     n_filters |-> DEFAULT_N_FILTERS,
     n_convs_per_scale |-> DEFAULT_N_CONVS_PER_SCALE,
     communications_between_scales |-> DEFAULT_COMMUNICATION_BETWEEN_SCALES,
     beta |-> DEFAULT_BETA]

(***************************************************************************)
(* residual_weights_computation(t, beta).                                  *)
(***************************************************************************)
\* the denominator taken as t - k
RwcLoopBody_OffByOne(w, t, k, beta) ==
    Append(w, RMul(RSub(<<1, 1>>, RDivInt(RAdd(<<1, 1>>, beta), t - k)), Get(w, 0 - 1)))

\* the body of the for loop: w_k = (1 - (1 + beta) / (t - k + 1)) * w[-1]; w.append(w_k)
RwcLoopBody(w, t, k, beta) ==
    Append(w, RMul(RSub(<<1, 1>>, RDivInt(RAdd(<<1, 1>>, beta), t - k + 1)), Get(w, 0 - 1)))

RECURSIVE RwcLoop(_, _, _, _)
RwcLoop(w, t, k, beta) ==
    IF k >= 1 THEN RwcLoop(RwcLoopBody(w, t, k, beta), t, k - 1, beta) ELSE w

residual_weights_computation(t, beta) == Reverse(RwcLoop(<<beta>>, t, t - 1, beta))

(***************************************************************************)
(* FocNet.build_needs_to_compute.  The dict needs_to_compute is a function *)
(* from receiving coordinates to source coordinates.                       *)
(***************************************************************************)
EmptyDict == [key \in {} |-> None]

DictSet(dict, key, value) ==
    [k \in (DOMAIN dict) \cup {key} |-> IF k = key THEN value ELSE dict[k]]

\* a lookup that never finds the key
DictGet_Miss(dict, key, default) == default

DictGet(dict, key, default) == IF key \in DOMAIN dict THEN dict[key] ELSE default

\* the first pair taken as an upscale pair
InitialDown_Up == FALSE

\* down = True
InitialDown == TRUE

\* the direction never flipped
FlipDown_Stuck(down) == down

\* down = not down
FlipDown(down) == ~down

\* the body of the inner loop for the j-th pair of scale_communication
RecordCommunication(needs, i_scale, pair, down) ==
    LET scale_up_node == <<i_scale, pair[1]>>
        scale_down_node == <<i_scale + 1, pair[2]>>
    IN  IF down
        THEN DictSet(needs, scale_down_node, scale_up_node)
        ELSE DictSet(needs, scale_up_node, scale_down_node)

RECURSIVE BuildScale(_, _, _, _, _)
BuildScale(needs, i_scale, scale_communication, j, down) ==
    IF j > Len(scale_communication)
    THEN needs
    ELSE BuildScale(RecordCommunication(needs, i_scale, scale_communication[j], down),
                    i_scale, scale_communication, j + 1, FlipDown(down))

\* the outer loop; enumerate() numbers the adjacency lists from 0
RECURSIVE BuildFrom(_, _, _)
BuildFrom(needs, communications, i) ==
    IF i > Len(communications)
    THEN needs
    ELSE BuildFrom(BuildScale(needs, i - 1, communications[i], 1, InitialDown),
                   communications, i + 1)

build_needs_to_compute(communications) == BuildFrom(EmptyDict, communications, 1)

(***************************************************************************)
(* FocNet.__init__: stores the arguments as given (no argument is checked) *)
(* and builds needs_to_compute.                                            *)
(***************************************************************************)
NotConstructed ==
    [constructed |-> FALSE,
     n_scales |-> 0,
     n_filters |-> 0,
     n_convs_per_scale |-> <<>>,
     communications_between_scales |-> <<>>,
     beta |-> <<0, 1>>,
     conv_blocks_per_scale |-> <<>>,
     needs_to_compute |-> EmptyDict]

\* conv_blocks_per_scale holds one list of n_conv_blocks blocks per entry of
\* n_convs_per_scale; a block is identified by its position
ConvBlocks(n_convs_per_scale) ==
    [i \in 1..Len(n_convs_per_scale) |->
        [j \in 1..n_convs_per_scale[i] |-> <<i - 1, j - 1>>]]

FocNetInit ==
    /\ ~self.constructed
    /\ self' = [constructed |-> TRUE,
                n_scales |-> args.n_scales,
                n_filters |-> args.n_filters,
                n_convs_per_scale |-> args.n_convs_per_scale,
                communications_between_scales |-> args.communications_between_scales,
                beta |-> args.beta,
                conv_blocks_per_scale |-> ConvBlocks(args.n_convs_per_scale),
                needs_to_compute |-> build_needs_to_compute(args.communications_between_scales)]
    /\ UNCHANGED <<args, pass, rwc>>

(***************************************************************************)
(* Tensors.  A stored feature records the operation that produced it, the  *)
(* coordinate of the block (or of the resampled source), the stored        *)
(* features it was computed from, its residual terms <<weight, index>>     *)
(* into the store of its own scale, and its shape.                         *)
(***************************************************************************)
\* AveragePooling2D(padding='same'): pool size 2, stride 2
PoolSize(n) == (n + 1) \div 2

\* an upsampling that keeps the size
UnpoolSize_Identity(n) == n

\* UpSampling2D(): size 2
UnpoolSize(n) == 2 * n

first_conv(inputs) ==
    [op |-> "first_conv", node |-> None, inp |-> <<>>, residual |-> <<>>,
     h |-> inputs[1], w |-> inputs[2], ch |-> self.n_filters]

pooling(feature, source) ==
    [op |-> "pooling", node |-> source, inp |-> << <<"identity", source[1], source[2]>> >>,
     residual |-> <<>>, h |-> PoolSize(feature.h), w |-> PoolSize(feature.w), ch |-> feature.ch]

\* the coarser feature average-pooled instead of upsampled
unpooling_AsPooling(feature, source) == pooling(feature, source)

unpooling(feature, source) ==
    [op |-> "unpooling", node |-> source, inp |-> << <<"identity", source[1], source[2]>> >>,
     residual |-> <<>>, h |-> UnpoolSize(feature.h), w |-> UnpoolSize(feature.w), ch |-> feature.ch]

\* final_conv: 1 filter, kernel 1, padding 'same'
final_conv(feature, source) ==
    [op |-> "final_conv", node |-> source, inp |-> << <<"identity", source[1], source[2]>> >>,
     residual |-> <<>>, h |-> feature.h, w |-> feature.w, ch |-> 1]

SameShape(a, b) == a.h = b.h /\ a.w = b.w /\ a.ch = b.ch

SetAt(list, i, value) == [list EXCEPT ![PyIndex(list, i) + 1] = value]

(***************************************************************************)
(* FocNet.call.  A forward pass is a record of the locals of call, the     *)
(* position of the pass, and counters of what the pass has done.           *)
(***************************************************************************)
IdlePass(inputs) ==
    [pc |-> "idle",
     inputs |-> inputs,
     i_scale |-> 0,
     i_feature |-> 0,
     features_per_scale |-> <<>>,
     outputs |-> None,
     iterations |-> 0,
     jumps |-> 0,
     overflows |-> 0,
     calls |-> EmptyDict]

Raise(l, exception) == [l EXCEPT !.pc = exception]

\* while i_scale != 0 or i_feature < self.n_convs_per_scale[0]
LoopCondition(l) == l.i_scale # 0 \/ l.i_feature < Get(self.n_convs_per_scale, 0)

\* resuming one step before the last materialized one
ResumeFeature_Before(store) == Len(store) - 2

\* resuming at the number of materialized features
ResumeFeature_Len(store) == Len(store)

\* i_feature = len(features_per_scale[i_scale]) - 1
ResumeFeature(store) == Len(store) - 1

\* jumping to the first step of the other scale
JumpFeature_Restart(n_features_scale_to_compute) == 0

\* i_feature = max(n_features_scale_to_compute - 1, 0)
JumpFeature(n_features_scale_to_compute) == Max(n_features_scale_to_compute - 1, 0)

\* for weight, res_feature in zip(weights, features_per_scale[i_scale])
Zip(weights, store) == [i \in 1..Min(Len(weights), Len(store)) |-> <<weights[i], i - 1>>]

\* lines 158-168: the block of (i_scale, i_feature) applied to feature, the
\* residual sum, the append and the advance
Compute(l, i_scale, i_feature, features, feature) ==
    LET blocks == self.conv_blocks_per_scale
    IN  IF ~InRange(blocks, i_scale) \/ ~InRange(features, i_scale)
        THEN Raise(l, "IndexError")
        ELSE IF ~InRange(Get(blocks, i_scale), i_feature)
        THEN Raise(l, "IndexError")
        ELSE
        LET block == Get(Get(blocks, i_scale), i_feature)
            store == Get(features, i_scale)
            weights == residual_weights_computation(i_feature, self.beta)
            new_feature == [op |-> "conv_block", node |-> block, inp |-> feature.inp,
                            residual |-> Zip(weights, store),
                            h |-> feature.h, w |-> feature.w, ch |-> self.n_filters]
        IN  IF \E i \in 1..Min(Len(weights), Len(store)) : ~SameShape(store[i], new_feature)
            THEN Raise(l, "InvalidArgumentError")
            ELSE [l EXCEPT !.i_scale = i_scale,
                           !.i_feature = i_feature + 1,
                           !.features_per_scale = SetAt(features, i_scale, Append(store, new_feature)),
                           !.iterations = @ + 1,
                           !.calls = DictSet(@, block, DictGet(@, block, 0) + 1)]

\* lines 121-154: the current coordinate has the dependency node_to_compute
WithDependency(l, i_scale, i_feature, node_to_compute) ==
    LET features == l.features_per_scale
        i_scale_to_compute == node_to_compute[1]
        i_feature_to_compute == node_to_compute[2]
    IN  IF ~InRange(features, i_scale_to_compute)
        THEN Raise(l, "IndexError")
        ELSE
        LET n_features_scale_to_compute == Len(Get(features, i_scale_to_compute))
        IN  IF n_features_scale_to_compute <= i_feature_to_compute
            THEN [l EXCEPT !.i_scale = i_scale_to_compute,
                           !.i_feature = JumpFeature(n_features_scale_to_compute),
                           !.iterations = @ + 1,
                           !.jumps = @ + 1]
            ELSE IF ~InRange(Get(features, i_scale_to_compute), i_feature_to_compute)
                    \/ ~InRange(features, i_scale)
            THEN Raise(l, "IndexError")
            ELSE
            LET source == <<PyIndex(features, i_scale_to_compute),
                            PyIndex(Get(features, i_scale_to_compute), i_feature_to_compute)>>
                additional_feature == Get(Get(features, i_scale_to_compute), i_feature_to_compute)
                additional_feature_processed ==
                    IF i_scale_to_compute > i_scale
                    THEN unpooling(additional_feature, source)
                    ELSE pooling(additional_feature, source)
                store == Get(features, i_scale)
            IN  IF Len(store) = 0
                THEN Compute(l, i_scale, i_feature,
                             SetAt(features, i_scale, Append(store, additional_feature_processed)),
                             [inp |-> << <<"identity", PyIndex(features, i_scale), 0>> >>,
                              h |-> additional_feature_processed.h,
                              w |-> additional_feature_processed.w,
                              ch |-> additional_feature_processed.ch])
                ELSE IF ~InRange(store, i_feature)
                THEN Raise(l, "IndexError")
                ELSE
                LET own == Get(store, i_feature)
                IN  IF own.h # additional_feature_processed.h \/ own.w # additional_feature_processed.w
                    THEN Raise(l, "InvalidArgumentError")
                    ELSE Compute(l, i_scale, i_feature, features,
                                 [inp |-> << <<"identity", PyIndex(features, i_scale), PyIndex(store, i_feature)>>,
                                             <<additional_feature_processed.op, source[1], source[2]>> >>,
                                  h |-> own.h, w |-> own.w,
                                  ch |-> own.ch + additional_feature_processed.ch])

\* lines 156-157: feature = features_per_scale[i_scale][-1]
NoDependency(l, i_scale, i_feature) ==
    LET features == l.features_per_scale
    IN  IF ~InRange(features, i_scale)
        THEN Raise(l, "IndexError")
        ELSE IF Len(Get(features, i_scale)) = 0
        THEN Raise(l, "IndexError")
        ELSE
        LET store == Get(features, i_scale)
            last == Get(store, 0 - 1)
        IN  Compute(l, i_scale, i_feature, features,
                    [inp |-> << <<"identity", PyIndex(features, i_scale), Len(store) - 1>> >>,
                     h |-> last.h, w |-> last.w, ch |-> last.ch])

\* one execution of the body of the while loop, lines 113-168
Iteration(l) ==
    LET n_convs == self.n_convs_per_scale
        features == l.features_per_scale
    IN  IF ~InRange(n_convs, l.i_scale)
        THEN Raise(l, "IndexError")
        ELSE
        LET overflow == l.i_feature >= Get(n_convs, l.i_scale)
            i_scale == IF overflow THEN l.i_scale - 1 ELSE l.i_scale
        IN  IF overflow /\ ~InRange(features, i_scale)
            THEN Raise(l, "IndexError")
            ELSE
            LET i_feature == IF overflow THEN ResumeFeature(Get(features, i_scale)) ELSE l.i_feature
                node_to_compute == DictGet(self.needs_to_compute, <<i_scale, i_feature>>, None)
                counted == [l EXCEPT !.overflows = IF overflow THEN @ + 1 ELSE @]
            IN  IF node_to_compute = None
                THEN NoDependency(counted, i_scale, i_feature)
                ELSE WithDependency(counted, i_scale, i_feature, node_to_compute)

\* lines 108-111: the locals of call when the loop is entered
StartPass(l) ==
    [l EXCEPT !.pc = "loop",
              !.features_per_scale =
                  [i \in 1..self.n_scales |->
                      IF i = 1 THEN <<first_conv(l.inputs)>> ELSE <<>>],
              !.i_scale = 0,
              !.i_feature = 0]

\* a call that resets a feature store held by the instance
Call_SharedStore(p) ==
    /\ self.constructed
    /\ pass[p].pc = "idle"
    /\ pass' = [q \in DOMAIN pass |->
                  IF q = p
                  THEN StartPass(pass[p])
                  ELSE [pass[q] EXCEPT !.features_per_scale = StartPass(pass[p]).features_per_scale]]
    /\ UNCHANGED <<args, self, rwc>>

Call(p) ==
    /\ self.constructed
    /\ pass[p].pc = "idle"
    /\ pass' = [pass EXCEPT ![p] = StartPass(pass[p])]
    /\ UNCHANGED <<args, self, rwc>>

\* lines 112-168
Iterate(p) ==
    /\ pass[p].pc = "loop"
    /\ pass[p].iterations < MaxIterations
    /\ LoopCondition(pass[p])
    /\ pass' = [pass EXCEPT ![p] = Iteration(pass[p])]
    /\ UNCHANGED <<args, self, rwc>>

\* lines 169-172
Return(p) ==
    /\ pass[p].pc = "loop"
    /\ ~LoopCondition(pass[p])
    /\ LET store == Get(pass[p].features_per_scale, 0)
           index == Get(self.n_convs_per_scale, 0)
       IN  pass' = [pass EXCEPT ![p] =
                      IF ~InRange(store, index)
                      THEN Raise(@, "IndexError")
                      ELSE [@ EXCEPT !.pc = "done",
                                     !.outputs = final_conv(Get(store, index), <<0, PyIndex(store, index)>>)]]
    /\ UNCHANGED <<args, self, rwc>>

(***************************************************************************)
(* residual_weights_computation executed statement by statement.           *)
(***************************************************************************)
RwcIdle == [pc |-> "idle", t |-> 0, beta |-> <<0, 1>>, w |-> <<>>, k |-> 0]

\* w = [beta]; the loop variable starts at t-1
RwcEnter ==
    /\ rwc.pc = "called"
    /\ rwc' = [rwc EXCEPT !.pc = "loop", !.w = <<rwc.beta>>, !.k = rwc.t - 1]
    /\ UNCHANGED <<args, self, pass>>

\* for k in range(t-1, 0, -1)
RwcIterate ==
    /\ rwc.pc = "loop"
    /\ rwc.k >= 1
    /\ rwc' = [rwc EXCEPT !.w = RwcLoopBody(rwc.w, rwc.t, rwc.k, rwc.beta), !.k = rwc.k - 1]
    /\ UNCHANGED <<args, self, pass>>

\* w = w[::-1]; return w
RwcReturn ==
    /\ rwc.pc = "loop"
    /\ rwc.k < 1
    /\ rwc' = [rwc EXCEPT !.pc = "returned", !.w = Reverse(rwc.w)]
    /\ UNCHANGED <<args, self, pass>>

(***************************************************************************)
(* Specifications.                                                         *)
(***************************************************************************)
InputSizes == (1..MaxDim) \X (1..MaxDim)

BetaValues == {Rat(n, 5) : n \in (0 - MaxBetaFifths)..MaxBetaFifths}

\* one forward pass of a default-configured FocNet on an input of any size
Init ==
    /\ args = DefaultArgs
    /\ self = NotConstructed
    /\ \E inputs \in InputSizes : pass = [p \in {1} |-> IdlePass(inputs)]
    /\ rwc = RwcIdle

Next ==
    \/ FocNetInit
    \/ \E p \in DOMAIN pass : Call(p)
    \/ \E p \in DOMAIN pass : Iterate(p)
    \/ \E p \in DOMAIN pass : Return(p)

Spec == Init /\ [][Next]_vars

\* one call of residual_weights_computation on any step and beta
InitRwc ==
    /\ args = DefaultArgs
    /\ self = NotConstructed
    /\ pass = [p \in {} |-> IdlePass(<<1, 1>>)]
    /\ \E t \in 0..MaxT, beta \in BetaValues :
          rwc = [pc |-> "called", t |-> t, beta |-> beta, w |-> <<>>, k |-> 0]

NextRwc == RwcEnter \/ RwcIterate \/ RwcReturn

SpecRwc == InitRwc /\ [][NextRwc]_vars

(***************************************************************************)
(* Configurations other than the default one: a small well-formed one and  *)
(* malformed ones.                                                         *)
(***************************************************************************)
SmallArgs ==
    [DefaultArgs EXCEPT !.n_scales = 2,
                        !.n_convs_per_scale = <<2, 2>>,
                        !.communications_between_scales = << << <<1, 0>>, <<1, 1>> >> >>]

TooFewConvsArgs == [DefaultArgs EXCEPT !.n_convs_per_scale = <<5, 11, 11>>]

TooFewCommunicationsArgs ==
    [DefaultArgs EXCEPT !.communications_between_scales =
        SubSeq(DEFAULT_COMMUNICATION_BETWEEN_SCALES, 1, 2)]

OutOfBoundsArgs ==
    [SmallArgs EXCEPT !.communications_between_scales = << << <<1, 0>>, <<1, 5>> >> >>]

CyclicArgs ==
    [SmallArgs EXCEPT !.communications_between_scales = << << <<1, 0>>, <<0, 1>> >> >>]

\* the adjacency list [(1,0),(1,2),(2,3)] given for the scale pair (0, 1)
\* and for the scale pair (1, 2)
ExampleList == << <<1, 0>>, <<1, 2>>, <<2, 3>> >>

ExampleArgs0 ==
    [SmallArgs EXCEPT !.n_convs_per_scale = <<3, 4>>,
                      !.communications_between_scales = <<ExampleList>>]

ExampleArgs1 ==
    [SmallArgs EXCEPT !.n_scales = 3,
                      !.n_convs_per_scale = <<2, 3, 4>>,
                      !.communications_between_scales =
                          << << <<1, 0>>, <<1, 1>> >>, ExampleList >>]

Configurations ==
    {DefaultArgs, SmallArgs, TooFewConvsArgs, TooFewCommunicationsArgs,
     OutOfBoundsArgs, CyclicArgs, ExampleArgs0, ExampleArgs1}

SquareInputSizes == {<<d, d>> : d \in 1..MaxDim}

\* one forward pass of a FocNet constructed from any of the configurations
InitCfg ==
    /\ args \in Configurations
    /\ self = NotConstructed
    /\ \E inputs \in SquareInputSizes : pass = [p \in {1} |-> IdlePass(inputs)]
    /\ rwc = RwcIdle

SpecCfg == InitCfg /\ [][Next]_vars

RECURSIVE Pow2(_)
Pow2(n) == IF n <= 0 THEN 1 ELSE 2 * Pow2(n - 1)

\* the input sizes forward admits: divisible by 2^(n_scales-1)
Divisible(inputs) ==
    /\ inputs[1] % Pow2(args.n_scales - 1) = 0
    /\ inputs[2] % Pow2(args.n_scales - 1) = 0

AdmittedInputSizes == {inputs \in SquareInputSizes : Divisible(inputs)}

\* two forward passes on the same default-configured FocNet, interleaved
InitConc ==
    /\ args = DefaultArgs
    /\ self = NotConstructed
    /\ \E in1 \in AdmittedInputSizes, in2 \in AdmittedInputSizes :
          pass = [p \in {1, 2} |-> IdlePass(IF p = 1 THEN in1 ELSE in2)]
    /\ rwc = RwcIdle

SpecConc == InitConc /\ [][Next]_vars

(***************************************************************************)
(* Claims.                                                                 *)
(***************************************************************************)
RECURSIVE SumSeq(_)
SumSeq(list) == IF Len(list) = 0 THEN 0 ELSE list[1] + SumSeq(Tail(list))

AllCoordinates ==
    UNION {{<<scale - 1, step - 1>> : step \in 1..DEFAULT_N_CONVS_PER_SCALE[scale]} :
             scale \in 1..DEFAULT_N_SCALES}

BlockFeatures(l) ==
    {f \in UNION {{l.features_per_scale[s][i] : i \in 1..Len(l.features_per_scale[s])} :
                    s \in 1..Len(l.features_per_scale)} : f.op = "conv_block"}

\* C1: under the default configuration, a forward pass on an admitted input
\* never fails, its loop is still running only while fewer than 34 + 21
\* iterations were made, and when the loop has exited the terminal condition
\* scale = 0, step = n_convs_per_scale[0] holds and the number of iterations
\* made is the sum of n_convs_per_scale (34) plus the number of jump
\* iterations (21).  Every iteration adds one to the iteration count, so the
\* loop exits after exactly 55 iterations.
C1_Termination ==
    \A p \in DOMAIN pass :
        LET l == pass[p]
        IN  Divisible(l.inputs) =>
              /\ l.pc \in {"idle", "loop", "done"}
              /\ (l.pc = "loop" /\ LoopCondition(l)) =>
                    /\ l.iterations < 34 + 21
                    /\ l.jumps <= 21
              /\ (l.pc = "done" \/ (l.pc = "loop" /\ ~LoopCondition(l))) =>
                    /\ l.i_scale = 0
                    /\ l.i_feature = self.n_convs_per_scale[1]
                    /\ SumSeq(self.n_convs_per_scale) = 34
                    /\ l.jumps = 21
                    /\ l.iterations = SumSeq(self.n_convs_per_scale) + l.jumps

C1_Witness ==
    /\ pass[1].pc = "done"
    /\ pass[1].jumps > 0
    /\ pass[1].iterations = 34 + pass[1].jumps

\* C2: no block is ever invoked twice, only blocks of valid coordinates are
\* invoked, and when the pass has terminated every coordinate's block has
\* been invoked exactly once.
C2_ExactlyOnce ==
    \A p \in DOMAIN pass :
        /\ \A c \in DOMAIN pass[p].calls : pass[p].calls[c] = 1 /\ c \in AllCoordinates
        /\ pass[p].pc = "done" => DOMAIN pass[p].calls = AllCoordinates

C2_Witness ==
    /\ pass[1].pc = "done"
    /\ pass[1].overflows > 0
    /\ Cardinality(DOMAIN pass[1].calls) = 34

\* C3: the weights for step 0 are the empty sequence and the feature stored
\* by the compute of step 0 of any scale carries no residual term.
C3_NoResidualAtStepZero ==
    \A p \in DOMAIN pass :
        \A f \in BlockFeatures(pass[p]) :
            f.node[2] = 0 =>
                /\ residual_weights_computation(0, self.beta) = <<>>
                /\ f.residual = <<>>

\* C4: residual_weights_computation(step, beta) returns exactly step scalars.
C4_LengthIsStep == rwc.pc = "returned" => Len(rwc.w) = rwc.t

\* the factor (1 - (1 + beta) / m) of the recursion
C5_Factor(beta, m) == RSub(<<1, 1>>, RDivInt(RAdd(<<1, 1>>, beta), m))

C5_Recursion ==
    /\ rwc.w[rwc.t] = rwc.beta
    /\ \A k \in 1..(rwc.t - 1) :
          rwc.w[k] = RMul(C5_Factor(rwc.beta, rwc.t - k + 1), rwc.w[k + 1])

\* C5 as stated: with beta = 1/5 the weights of step 1 are [0.2] and the
\* weights of step 3 are [0.004, -0.02, 0.2].
C5_Original ==
    (rwc.pc = "returned" /\ rwc.beta = <<1, 5>>) =>
        /\ rwc.t = 1 => rwc.w = << <<1, 5>> >>
        /\ rwc.t = 3 => rwc.w = << <<1, 250>>, <<0 - 1, 50>>, <<1, 5>> >>

\* C5 amended: with beta = 1/5 the weights of step 1 are [0.2] and the
\* weights of step 3 are [0.048, 0.08, 0.2], and they satisfy the recursion
\* w[step-1] = beta, w[k-1] = (1 - (1+beta)/(step-k+1)) * w[k].
C5_Amended ==
    (rwc.pc = "returned" /\ rwc.beta = <<1, 5>>) =>
        /\ rwc.t = 1 => rwc.w = << <<1, 5>> >> /\ C5_Recursion
        /\ rwc.t = 3 => rwc.w = << <<6, 125>>, <<2, 25>>, <<1, 5>> >> /\ C5_Recursion

C5_Witness == rwc.pc = "returned" /\ rwc.beta = <<1, 5>> /\ rwc.t = 3 /\ Len(rwc.w) = 3

\* C6: the mapping built from the default table has 24 entries; the pair at
\* an even position of the list of (s, s+1) is recorded as
\* (s+1, step_lower) -> (s, step_upper), the pair at an odd position as
\* (s, step_upper) -> (s+1, step_lower); (1,0) depends on (0,1).
C6_DefaultMapping ==
    (self.constructed /\ args = DefaultArgs) =>
        /\ Cardinality(DOMAIN self.needs_to_compute) = 24
        /\ \A s \in 0..2 : \A k \in 0..7 :
              LET pair == DEFAULT_COMMUNICATION_BETWEEN_SCALES[s + 1][k + 1]
                  upper == <<s, pair[1]>>
                  lower == <<s + 1, pair[2]>>
              IN  IF k % 2 = 0
                  THEN DictGet(self.needs_to_compute, lower, None) = upper
                  ELSE DictGet(self.needs_to_compute, upper, None) = lower
        /\ DictGet(self.needs_to_compute, <<1, 0>>, None) = <<0, 1>>

C6_Witness ==
    /\ self.constructed
    /\ args = DefaultArgs
    /\ <<0, 4>> \in DOMAIN self.needs_to_compute
    /\ <<3, 6>> \in DOMAIN self.needs_to_compute

\* C7: when the terminal condition holds, FeatureStore[0] has exactly
\* n_convs_per_scale[0] + 1 entries, and the feature the final projection
\* reads, at index n_convs_per_scale[0], is the last one of scale 0.
C7_FinalFeature ==
    \A p \in DOMAIN pass :
        LET l == pass[p]
            terminal == l.pc \in {"loop", "done"} /\ l.i_scale = 0
                        /\ l.i_feature = self.n_convs_per_scale[1]
        IN  /\ terminal => Len(l.features_per_scale[1]) = self.n_convs_per_scale[1] + 1
            /\ l.pc = "done" =>
                  /\ terminal
                  /\ l.outputs.node = <<0, Len(l.features_per_scale[1]) - 1>>
                  /\ l.outputs.node[2] = self.n_convs_per_scale[1]

C7_Witness ==
    /\ pass[1].pc = "done"
    /\ pass[1].outputs.op = "final_conv"
    /\ Len(pass[1].features_per_scale[1]) = 6

\* the size of a stored feature after the resampling named by op
C8_Resampled(op, n) ==
    IF op = "pooling" THEN (n + 1) \div 2 ELSE IF op = "unpooling" THEN 2 * n ELSE n

\* C8: on an input of size HxW divisible by 2^(n_scales-1), every feature
\* stored at scale s has size (H/2^s)x(W/2^s), every concatenation joins two
\* features of equal size (none is rejected), and the output has 1 channel
\* and size HxW.
C8_Shapes ==
    \A p \in DOMAIN pass :
        LET l == pass[p]
            fps == l.features_per_scale
        IN  Divisible(l.inputs) =>
              /\ l.pc # "InvalidArgumentError"
              /\ \A s \in 1..Len(fps) : \A i \in 1..Len(fps[s]) :
                    /\ fps[s][i].h * Pow2(s - 1) = l.inputs[1]
                    /\ fps[s][i].w * Pow2(s - 1) = l.inputs[2]
                    /\ Len(fps[s][i].inp) = 2 =>
                          LET own == fps[fps[s][i].inp[1][2] + 1][fps[s][i].inp[1][3] + 1]
                              other == fps[fps[s][i].inp[2][2] + 1][fps[s][i].inp[2][3] + 1]
                          IN  /\ own.h = C8_Resampled(fps[s][i].inp[2][1], other.h)
                              /\ own.w = C8_Resampled(fps[s][i].inp[2][1], other.w)
              /\ l.pc = "done" =>
                    /\ l.outputs.ch = 1
                    /\ l.outputs.h = l.inputs[1]
                    /\ l.outputs.w = l.inputs[2]

C8_Witness ==
    /\ pass[1].pc = "done"
    /\ Divisible(pass[1].inputs)
    /\ pass[1].inputs[1] # pass[1].inputs[2]
    /\ \E f \in BlockFeatures(pass[1]) : Len(f.inp) = 2 /\ f.inp[2][1] = "unpooling"
    /\ \E f \in BlockFeatures(pass[1]) : Len(f.inp) = 2 /\ f.inp[2][1] = "pooling"

\* a (step_upper, step_lower) pair outside the step bounds of its scales
C9_PairOutOfBounds(a) ==
    \E i \in 1..Len(a.communications_between_scales) :
        \E j \in 1..Len(a.communications_between_scales[i]) :
            LET pair == a.communications_between_scales[i][j]
                n_convs == a.n_convs_per_scale
            IN  \/ i + 1 > Len(n_convs)
                \/ pair[1] < 0 \/ pair[1] > n_convs[i] - 1
                \/ pair[2] < 0 \/ pair[2] > n_convs[i + 1] - 1

\* following the jump rule from (0, 0) over the initial feature store comes
\* back to a coordinate already visited
RECURSIVE C9_JumpsRepeat(_, _, _)
C9_JumpsRepeat(needs, node, seen) ==
    LET source == DictGet(needs, node, None)
        stored == IF source # None /\ source[1] = 0 THEN 1 ELSE 0
    IN  IF source = None THEN FALSE
        ELSE IF stored > source[2] THEN FALSE
        ELSE LET target == <<source[1], Max(stored - 1, 0)>>
             IN  target \in seen \/ C9_JumpsRepeat(needs, target, seen \cup {target})

C9_Malformed(a) ==
    \/ Len(a.n_convs_per_scale) # a.n_scales
    \/ Len(a.communications_between_scales) # a.n_scales - 1
    \/ C9_PairOutOfBounds(a)
    \/ C9_JumpsRepeat(build_needs_to_compute(a.communications_between_scales), <<0, 0>>, {<<0, 0>>})

\* C9: a malformed configuration is rejected at construction: no FocNet is
\* constructed from it and no forward pass on it reaches the scheduler loop.
C9_MalformedRejected ==
    C9_Malformed(args) =>
        /\ ~self.constructed
        /\ \A p \in DOMAIN pass : pass[p].pc = "idle"

\* the locals l after up to n more iterations of the loop
RECURSIVE C10_Run(_, _)
C10_Run(l, n) ==
    IF n = 0 \/ l.pc # "loop" \/ ~LoopCondition(l) THEN l ELSE C10_Run(Iteration(l), n - 1)

\* the locals of a pass that ran n iterations on its own
C10_SoloRun(inputs, n) == C10_Run(StartPass(IdlePass(inputs)), n)

C10_Frame ==
    /\ self.constructed => self' = self
    /\ \A p \in DOMAIN pass :
          pass'[p] # pass[p] => \A q \in DOMAIN pass \ {p} : pass'[q] = pass[q]

C10_AsAlone ==
    \A p \in DOMAIN pass :
        pass[p].pc \in {"loop", "done"} =>
            LET solo == C10_SoloRun(pass[p].inputs, pass[p].iterations)
            IN  /\ pass[p].i_scale = solo.i_scale
                /\ pass[p].i_feature = solo.i_feature
                /\ pass[p].features_per_scale = solo.features_per_scale
                /\ pass[p].calls = solo.calls
                /\ pass[p].jumps = solo.jumps

\* C10: when two passes on the same FocNet are interleaved, a step of one
\* pass changes neither the other pass nor the constructed FocNet (its
\* needs_to_compute included), and each pass is, after n iterations, in the
\* state a pass running alone is in after n iterations.
C10_Isolation == [][C10_Frame]_vars /\ []C10_AsAlone

C10_Witness ==
    /\ pass[1].pc = "loop" /\ pass[2].pc = "loop"
    /\ pass[1].iterations > 10
    /\ pass[2].iterations > pass[1].iterations + 5
    /\ pass[1].inputs # pass[2].inputs

\* the scale pairs (s, s+1) that were given the adjacency list [(1,0),(1,2),(2,3)]
C11_ExamplePairs ==
    {s \in 0..(Len(self.communications_between_scales) - 1) :
        self.communications_between_scales[s + 1] = ExampleList}

\* C11 as stated: the mapping built from [(1,0),(1,2),(2,3)] for (s, s+1)
\* contains (s+1,0) -> (s,1) and (s,2) -> (s+1,1).
C11_Original ==
    self.constructed =>
        \A s \in C11_ExamplePairs :
            /\ DictGet(self.needs_to_compute, <<s + 1, 0>>, None) = <<s, 1>>
            /\ DictGet(self.needs_to_compute, <<s, 2>>, None) = <<s + 1, 1>>

\* C11 amended: the mapping built from [(1,0),(1,2),(2,3)] for (s, s+1)
\* contains (s+1,0) -> (s,1), (s,1) -> (s+1,2) and (s+1,3) -> (s,2), and no
\* entry for (s,2).
C11_Amended ==
    self.constructed =>
        \A s \in C11_ExamplePairs :
            /\ DictGet(self.needs_to_compute, <<s + 1, 0>>, None) = <<s, 1>>
            /\ DictGet(self.needs_to_compute, <<s, 1>>, None) = <<s + 1, 2>>
            /\ DictGet(self.needs_to_compute, <<s + 1, 3>>, None) = <<s, 2>>
            /\ <<s, 2>> \notin DOMAIN self.needs_to_compute

C11_Witness ==
    /\ self.constructed
    /\ args = ExampleArgs1
    /\ C11_ExamplePairs = {1}
    /\ Cardinality(DOMAIN self.needs_to_compute) = 5

\* the position (from 0) in the store of its scale of every stored block output
StoredBlocks(l) ==
    {<<s, n>> \in (0..(Len(l.features_per_scale) - 1)) \X (0..MaxIterations) :
        /\ n < Len(l.features_per_scale[s + 1])
        /\ l.features_per_scale[s + 1][n + 1].op = "conv_block"}

\* C12: the residual sum of every computed feature has one term for each
\* feature that was in the store of its scale when it was computed, in
\* chronological order, and the most recent of them is weighted by beta.
C12_AllPriorWeighted ==
    \A p \in DOMAIN pass :
        \A c \in StoredBlocks(pass[p]) :
            LET f == pass[p].features_per_scale[c[1] + 1][c[2] + 1]
            IN  /\ Len(f.residual) = c[2]
                /\ \A j \in 1..Len(f.residual) : f.residual[j][2] = j - 1
                /\ f.residual[c[2]] = <<self.beta, c[2] - 1>>

\* C13: every computed feature was computed at the step index
\* len(FeatureStore[scale]) - 1 of that moment, and its same-scale input was
\* the feature at that index, the most recently materialized one.
C13_InputIsMostRecent ==
    \A p \in DOMAIN pass :
        \A c \in StoredBlocks(pass[p]) :
            LET f == pass[p].features_per_scale[c[1] + 1][c[2] + 1]
            IN  /\ f.node = <<c[1], c[2] - 1>>
                /\ f.inp[1] = <<"identity", c[1], c[2] - 1>>

C13_Witness ==
    /\ pass[1].pc = "loop"
    /\ pass[1].overflows = 2
    /\ \E c \in StoredBlocks(pass[1]) :
          /\ c[1] = 2
          /\ Len(pass[1].features_per_scale[c[1] + 1][c[2] + 1].inp) = 2
    /\ \E c \in StoredBlocks(pass[1]) :
          /\ c[1] = 3
          /\ Len(pass[1].features_per_scale[c[1] + 1][c[2] + 1].inp) = 1

\* the pairs of the adjacency list between scales i-1 and i
C14_Pairs(i) ==
    {self.communications_between_scales[i][j] :
        j \in 1..Len(self.communications_between_scales[i])}

\* C14 as stated: every (step_upper, step_lower) pair of the default table has
\* 0 <= step_upper <= n_convs_per_scale[s] - 1 and
\* 0 <= step_lower <= n_convs_per_scale[s+1] - 1.
C14_Original ==
    (self.constructed /\ args = DefaultArgs) =>
        \A i \in 1..Len(self.communications_between_scales) :
            \A pair \in C14_Pairs(i) :
                /\ 0 <= pair[1] /\ pair[1] <= self.n_convs_per_scale[i] - 1
                /\ 0 <= pair[2] /\ pair[2] <= self.n_convs_per_scale[i + 1] - 1

\* C14 amended: every pair of the default table has
\* 0 <= step_upper <= n_convs_per_scale[s] - 1 and
\* 0 <= step_lower <= n_convs_per_scale[s+1]; the last pair of every list has
\* step_lower = n_convs_per_scale[s+1], the index of the last feature stored
\* at scale s+1.
C14_Amended ==
    (self.constructed /\ args = DefaultArgs) =>
        \A i \in 1..Len(self.communications_between_scales) :
            /\ \A pair \in C14_Pairs(i) :
                  /\ 0 <= pair[1] /\ pair[1] <= self.n_convs_per_scale[i] - 1
                  /\ 0 <= pair[2] /\ pair[2] <= self.n_convs_per_scale[i + 1]
            /\ self.communications_between_scales[i][Len(self.communications_between_scales[i])][2]
                  = self.n_convs_per_scale[i + 1]

C14_Witness ==
    /\ self.constructed
    /\ args = DefaultArgs
    /\ <<4, 11>> \in C14_Pairs(1)
    /\ <<10, 7>> \in C14_Pairs(3)

\* the coordinate an iteration works on, after the overflow pop-up if any
C15_Current(l) ==
    LET overflow == l.i_feature >= self.n_convs_per_scale[l.i_scale + 1]
        scale == IF overflow THEN l.i_scale - 1 ELSE l.i_scale
    IN  <<scale, IF overflow THEN Len(l.features_per_scale[scale + 1]) - 1 ELSE l.i_feature>>

C15_Unresolved(l) ==
    LET c == C15_Current(l)
    IN  /\ c \in DOMAIN self.needs_to_compute
        /\ Len(l.features_per_scale[self.needs_to_compute[c][1] + 1]) <= self.needs_to_compute[c][2]

\* C15: an iteration that finds the dependency (other_scale, other_step) of
\* its coordinate unresolved sets scale to other_scale and step to
\* max(len(FeatureStore[other_scale]) - 1, 0), invokes no block and leaves
\* every FeatureStore sequence unchanged.
C15_JumpFrame ==
    [][\A p \in DOMAIN pass :
          (/\ pass[p].pc = "loop"
           /\ pass'[p] # pass[p]
           /\ LoopCondition(pass[p])
           /\ C15_Unresolved(pass[p])) =>
              LET other == self.needs_to_compute[C15_Current(pass[p])]
                  stored == Len(pass[p].features_per_scale[other[1] + 1])
              IN  /\ pass'[p].pc = "loop"
                  /\ pass'[p].i_scale = other[1]
                  /\ pass'[p].i_feature = (IF stored - 1 > 0 THEN stored - 1 ELSE 0)
                  /\ pass'[p].features_per_scale = pass[p].features_per_scale
                  /\ pass'[p].calls = pass[p].calls]_vars

C15_Witness ==
    /\ pass[1].pc = "loop"
    /\ pass[1].jumps = 4
    /\ pass[1].iterations = 9
    /\ pass[1].i_scale = 2
    /\ pass[1].i_feature = 1
    /\ Len(pass[1].features_per_scale[3]) = 2

\* C16: in a default-configured pass nothing is accessed out of range: no
\* access fails, the scale stays in 0..n_scales-1 and the step in
\* 0..n_convs_per_scale[scale], an overflow pop-up is taken only at a scale
\* >= 1 and resumes at a step that has a block, only blocks of existing
\* coordinates are invoked, and every feature that was read had been
\* materialized.
C16_InRange ==
    \A p \in DOMAIN pass :
        LET l == pass[p]
            fps == l.features_per_scale
        IN  /\ l.pc # "IndexError"
            /\ l.pc \in {"loop", "done"} =>
                  /\ l.i_scale \in 0..(self.n_scales - 1)
                  /\ l.i_feature \in 0..self.n_convs_per_scale[l.i_scale + 1]
                  /\ (l.pc = "loop" /\ LoopCondition(l)
                        /\ l.i_feature >= self.n_convs_per_scale[l.i_scale + 1]) =>
                        /\ l.i_scale >= 1
                        /\ Len(fps[l.i_scale]) - 1 \in 0..(self.n_convs_per_scale[l.i_scale] - 1)
                  /\ \A c \in DOMAIN l.calls :
                        /\ c[1] \in 0..(self.n_scales - 1)
                        /\ c[2] \in 0..(self.n_convs_per_scale[c[1] + 1] - 1)
                  /\ \A s \in 1..Len(fps) : \A i \in 1..Len(fps[s]) :
                        \A j \in 1..Len(fps[s][i].inp) :
                            /\ fps[s][i].inp[j][2] \in 0..(Len(fps) - 1)
                            /\ fps[s][i].inp[j][3] \in 0..(Len(fps[fps[s][i].inp[j][2] + 1]) - 1)
                  /\ l.pc = "done" => l.outputs.inp[1][3] \in 0..(Len(fps[1]) - 1)

C16_Witness ==
    /\ pass[1].pc = "loop"
    /\ pass[1].overflows = 3
    /\ pass[1].i_scale = 0
    /\ pass[1].i_feature = 5
    /\ Len(pass[1].features_per_scale[1]) = 6

\* the coordinates whose block is invoked by the step from l to m
C17_Invoked(l, m) ==
    {c \in DOMAIN m.calls : c \notin DOMAIN l.calls \/ m.calls[c] # l.calls[c]}

\* the entry (other_scale, other_step) is in the feature stores
C17_Holds(features, other) ==
    /\ other[1] \in 0..(Len(features) - 1)
    /\ other[2] \in 0..(Len(features[other[1] + 1]) - 1)

\* C17: the block of a coordinate with a dependency (other_scale, other_step)
\* is only invoked by an iteration that starts with an entry at index
\* other_step in the store of other_scale, and the concatenated input of the
\* block (or the seed of its scale) is made from that entry.
C17_SourceFirst ==
    [][\A p \in DOMAIN pass :
          \A c \in C17_Invoked(pass[p], pass'[p]) :
              c \in DOMAIN self.needs_to_compute =>
                  LET other == self.needs_to_compute[c]
                      store == pass'[p].features_per_scale[c[1] + 1]
                      new_feature == store[Len(store)]
                      used == IF Len(new_feature.inp) = 2
                              THEN <<new_feature.inp[2][2], new_feature.inp[2][3]>>
                              ELSE store[1].node
                  IN  /\ pass[p].pc = "loop"
                      /\ C17_Holds(pass[p].features_per_scale, other)
                      /\ new_feature.node = c
                      /\ used = other]_vars

C17_Witness ==
    /\ pass[1].pc = "loop"
    /\ <<0, 1>> \in DOMAIN self.needs_to_compute
    /\ <<0, 1>> \in DOMAIN pass[1].calls
    /\ <<1, 0>> \in DOMAIN self.needs_to_compute
    /\ <<1, 0>> \in DOMAIN pass[1].calls
    /\ self.needs_to_compute[<<0, 1>>] = <<1, 2>>
    /\ Len(pass[1].features_per_scale[1][3].inp) = 2
    /\ pass[1].iterations = 16

\* the resampled dependencies in the stores of l, each as
\* <<scale, resampler, other_scale, other_step>>: the second input of a
\* block and the seed of a scale >= 1
C18_Used(l) ==
    LET fps == l.features_per_scale
    IN  UNION {UNION {
            LET f == fps[s][i]
            IN  IF f.op = "conv_block" /\ Len(f.inp) = 2
                THEN {<<s - 1, f.inp[2][1], f.inp[2][2], f.inp[2][3]>>}
                ELSE IF f.op \in {"pooling", "unpooling"}
                THEN {<<s - 1, f.op, f.node[1], f.node[2]>>}
                ELSE {} : i \in 1..Len(fps[s])} : s \in 1..Len(fps)}

\* C18: every entry of the mapping links coordinates of scales that differ
\* by exactly 1; a resolved dependency is upsampled when other_scale > scale
\* and average-pooled otherwise, and on an admitted input the resampled
\* feature has the size of the features of the current scale.
C18_AdjacentResampled ==
    /\ self.constructed =>
          \A key \in DOMAIN self.needs_to_compute :
              Abs(self.needs_to_compute[key][1] - key[1]) = 1
    /\ \A p \in DOMAIN pass :
          \A u \in C18_Used(pass[p]) :
              LET source == pass[p].features_per_scale[u[3] + 1][u[4] + 1]
              IN  /\ Abs(u[3] - u[1]) = 1
                  /\ u[2] = (IF u[3] > u[1] THEN "unpooling" ELSE "pooling")
                  /\ Divisible(pass[p].inputs) =>
                        /\ C8_Resampled(u[2], source.h) * Pow2(u[1]) = pass[p].inputs[1]
                        /\ C8_Resampled(u[2], source.w) * Pow2(u[1]) = pass[p].inputs[2]

C18_Witness ==
    /\ pass[1].pc = "done"
    /\ args = DefaultArgs
    /\ pass[1].inputs = <<8, 8>>
    /\ <<0, "unpooling", 1, 11>> \in C18_Used(pass[1])
    /\ <<3, "pooling", 2, 1>> \in C18_Used(pass[1])
    /\ <<2, "unpooling", 3, 7>> \in C18_Used(pass[1])

\* the store after is the store before, extended at its end by the entries
\* of added
C19_Extended(before, after, added) ==
    /\ Len(after) = Len(before) + Len(added)
    /\ SubSeq(after, 1, Len(before)) = before
    /\ \A i \in 1..Len(added) : after[Len(before) + i].op = added[i]

\* no store is longer than the number of blocks of its scale plus the seed
C19_Bounded(l) ==
    \A s \in 1..Len(l.features_per_scale) :
        s <= Len(self.n_convs_per_scale) =>
            Len(l.features_per_scale[s]) <= self.n_convs_per_scale[s] + 1

\* C19: in every step of a forward pass each store stays the same or is
\* extended at its end, by one computed feature, or, when it was empty, by
\* its seed and one computed feature; no stored entry is changed or
\* removed, and no store exceeds n_convs_per_scale[scale] + 1 entries.
C19_AppendOnly ==
    [][\A p \in DOMAIN pass :
          pass[p].pc = "loop" =>
              LET before == pass[p].features_per_scale
                  after == pass'[p].features_per_scale
              IN  /\ Len(after) = Len(before)
                  /\ \A s \in 1..Len(before) :
                        \/ after[s] = before[s]
                        \/ C19_Extended(before[s], after[s], <<"conv_block">>)
                        \/ /\ before[s] = <<>>
                           /\ \/ C19_Extended(before[s], after[s], <<"pooling", "conv_block">>)
                              \/ C19_Extended(before[s], after[s], <<"unpooling", "conv_block">>)
                  /\ C19_Bounded(pass[p])
                  /\ C19_Bounded(pass'[p])]_vars

C19_Witness ==
    /\ pass[1].pc = "done"
    /\ args = DefaultArgs
    /\ \A s \in 1..4 : Len(pass[1].features_per_scale[s]) = DEFAULT_N_CONVS_PER_SCALE[s] + 1
    /\ pass[1].features_per_scale[4][1].op = "pooling"
    /\ pass[1].features_per_scale[4][8].op = "conv_block"

\* the entry at index 0 of the store of scale (from 0) is its seed
C20_Seed(l, scale) ==
    LET seed == l.features_per_scale[scale + 1][1]
    IN  IF scale = 0
        THEN seed = first_conv(l.inputs)
        ELSE /\ <<scale, 0>> \in DOMAIN self.needs_to_compute
             /\ seed.op \in {"pooling", "unpooling"}
             /\ seed.node = self.needs_to_compute[<<scale, 0>>]

\* C20: between iterations of the default pass every non-empty store holds
\* its seed at index 0 (the stem at scale 0, the resampled first dependency
\* at scales >= 1) and then the block outputs in step order, the output of
\* block (scale, k) at index k + 1; a dependency on (other_scale,
\* other_step) with other_step >= 1 reads the output of block
\* (other_scale, other_step - 1), and one with other_step = 0 reads a seed.
C20_StoreLayout ==
    \A p \in DOMAIN pass :
        LET l == pass[p]
            fps == l.features_per_scale
        IN  l.pc \in {"loop", "done"} =>
              /\ \A s \in 1..Len(fps) :
                    fps[s] # <<>> =>
                        /\ C20_Seed(l, s - 1)
                        /\ \A k \in 0..(Len(fps[s]) - 2) :
                              /\ fps[s][k + 2].op = "conv_block"
                              /\ fps[s][k + 2].node = <<s - 1, k>>
              /\ \A u \in C18_Used(l) :
                    LET read == fps[u[3] + 1][u[4] + 1]
                    IN  IF u[4] >= 1
                        THEN read.op = "conv_block" /\ read.node = <<u[3], u[4] - 1>>
                        ELSE read.op # "conv_block"

C20_Witness ==
    /\ pass[1].pc = "loop"
    /\ pass[1].iterations = 53
    /\ pass[1].overflows = 1
    /\ Len(pass[1].features_per_scale[3]) = 12
    /\ pass[1].features_per_scale[3][12].node = <<2, 10>>
    /\ pass[1].features_per_scale[3][12].inp[2] = <<"unpooling", 3, 7>>
    /\ pass[1].features_per_scale[4][8].node = <<3, 6>>
    /\ pass[1].features_per_scale[2] # <<>>

====
